---- MODULE Spec2Model ----
(***************************************************************************)
(* Model of bin/whisper-resize.py: the retention resize script.            *)
(*                                                                         *)
(* A retention spec is the pair <<precision, points>> as returned by       *)
(* whisper.parseRetentionDef.  An old archive is the record of             *)
(* whisper.info(path)['archives'].  Python's None is the empty tuple.      *)
(* A present sample is the one-element tuple <<t>> naming the slot it was  *)
(* stored in, so that a value can be told from every other value; an       *)
(* aggregate is the tuple of the samples that went into it.                *)
(***************************************************************************)
EXTENDS Integers, Sequences, FiniteSets, TLC

\* ---------------------------------------------------------------- bounds
MaxPoints == 3

None == << >>

\* the precisions of the schemas: a step and its double, so that an archive
\* has finer, equal and coarser counterparts
Precisions == {1, 2}
RetentionSpecs == Precisions \X (1..MaxPoints)
MaxRetention == 2 * MaxPoints
\* the clock: one full period of the coarsest precision, after every retention
Nows == {MaxRetention + p : p \in Precisions}

\* xFilesFactor as an exact fraction <<numerator, denominator>>
XffChoices == {<<0, 1>>, <<1, 2>>, <<1, 1>>}

VARIABLES now, old_archives, new_schema, new_archives, options, xff,
          pc, idx, fromTime, untilTime, old_timeinfo, old_values,
          best_fit_new_archive, fit_new_archive,
          written, log, fs, exitcode

vars == <<now, old_archives, new_schema, new_archives, options, xff,
          pc, idx, fromTime, untilTime, old_timeinfo, old_values,
          best_fit_new_archive, fit_new_archive,
          written, log, fs, exitcode>>

\* ------------------------------------------------------- pure functions
Min(a, b) == IF a < b THEN a ELSE b
Max(a, b) == IF a > b THEN a ELSE b

\* ceiling of a / b for b > 0 and any integer a
CeilDiv(a, b) == -((-a) \div b)

Last(s) == s[Len(s)]

\* whisper.info: one archive entry
OldArchive(p, n) == [secondsPerPoint |-> p, points |-> n, retention |-> p * n]

\* new_archives.sort(key=operator.itemgetter(0))
RECURSIVE SortByPrecision(_)
SortByPrecision(s) ==
  IF Len(s) <= 1 THEN s
  ELSE LET rest == SortByPrecision(Tail(s))
           lo == SelectSeq(rest, LAMBDA x : x[1] < Head(s)[1])
           hi == SelectSeq(rest, LAMBDA x : x[1] >= Head(s)[1])
       IN lo \o <<Head(s)>> \o hi

\* list.remove(x): drops the first element equal to x
RECURSIVE Remove(_, _)
Remove(s, x) ==
  IF s = << >> THEN << >>
  ELSE IF Head(s) = x THEN Tail(s)
  ELSE <<Head(s)>> \o Remove(Tail(s), x)

\* Python's s[a:b] for a (possibly negative) start and a stop, 0-based
PyIndex(i, n) == IF i < 0 THEN Max(n + i, 0) ELSE Min(i, n)
PySlice(s, a, b) ==
  LET lo == PyIndex(a, Len(s))
      hi == PyIndex(b, Len(s))
  IN IF lo >= hi THEN << >> ELSE SubSeq(s, lo + 1, hi)

\* len(range(start, end, step)) for step > 0
RangeLen(start, end, step) == Max(0, CeilDiv(end - start, step))

\* ------------------------------------------------------- external store
\* whisper.fetch(path, fromTime, untilTime, now) for the archive selected
\* by the window: the time info (start, end, step)
FetchTimeinfo(old_archive, from, until) ==
  LET step == old_archive.secondsPerPoint
      fromInterval == from - (from % step) + step
      untilInterval == until - (until % step) + step
      endInterval == IF fromInterval = untilInterval
                     THEN untilInterval + step ELSE untilInterval
  IN <<fromInterval, endInterval, step>>

\* the sample stored in the slot of timestamp t
Sample(t) == <<t>>

\* every sequence of optional samples the store may hold for a window, of
\* (end - start) / step slots in time order: slot i holds either None or
\* the sample of its timestamp
FetchValues(timeinfo) ==
  LET n == (timeinfo[2] - timeinfo[1]) \div timeinfo[3]
  IN {[i \in 1..n |-> IF present[i]
                      THEN Sample(timeinfo[1] + (i - 1) * timeinfo[3])
                      ELSE None] : present \in [1..n -> BOOLEAN]}

\* the samples of a sequence of present values, in order
RECURSIVE Samples(_)
Samples(values) ==
  IF values = << >> THEN << >> ELSE Head(values) \o Samples(Tail(values))

\* what a reduction of no value at all yields: not a sample of any slot
Undefined == <<0>>

\* whisper.aggregate(aggregationMethod, non_none_values, aggregation_values):
\* an opaque reduction, kept as the tuple of the samples it was given; it is
\* defined over a non-empty sequence of present values only
Aggregate(non_none_values, aggregation_values) ==
  IF non_none_values = << >> THEN Undefined ELSE Samples(non_none_values)

\* --------------------------------------------------------- the matcher
\* the scan removing a refine candidate only when it retains strictly less
RECURSIVE ScanNewArchives_keep(_, _, _, _, _)
ScanNewArchives_keep(old_archive, snapshot, i, best, remaining) ==
  IF i > Len(snapshot)
  THEN [best |-> best, fit |-> None, remaining |-> remaining]
  ELSE
    LET new_archive == snapshot[i]
        new_precision == new_archive[1]
        new_points == new_archive[2]
        new_retention == new_precision * new_points
        old_archive_retention == old_archive.retention
        old_precision == old_archive.secondsPerPoint
    IN IF new_precision <= old_precision /\ (old_precision % new_precision) = 0
       THEN LET rest == IF new_retention < old_archive_retention
                        THEN Remove(remaining, new_archive) ELSE remaining
            IN IF new_retention >= old_archive_retention
               THEN [best |-> new_archive, fit |-> None, remaining |-> rest]
               ELSE ScanNewArchives_keep(old_archive, snapshot, i + 1, new_archive, rest)
       ELSE IF new_retention >= old_archive_retention
               /\ (new_precision % old_precision) = 0
       THEN [best |-> best, fit |-> new_archive,
             remaining |-> IF new_retention = old_archive_retention
                           THEN Remove(remaining, new_archive) ELSE remaining]
       ELSE ScanNewArchives_keep(old_archive, snapshot, i + 1, best, remaining)

\* the scan returning a refine candidate only when it retains strictly more
RECURSIVE ScanNewArchives_strict(_, _, _, _, _)
ScanNewArchives_strict(old_archive, snapshot, i, best, remaining) ==
  IF i > Len(snapshot)
  THEN [best |-> best, fit |-> None, remaining |-> remaining]
  ELSE
    LET new_archive == snapshot[i]
        new_precision == new_archive[1]
        new_points == new_archive[2]
        new_retention == new_precision * new_points
        old_archive_retention == old_archive.retention
        old_precision == old_archive.secondsPerPoint
    IN IF new_precision <= old_precision /\ (old_precision % new_precision) = 0
       THEN LET rest == IF new_retention <= old_archive_retention
                        THEN Remove(remaining, new_archive) ELSE remaining
            IN IF new_retention > old_archive_retention
               THEN [best |-> new_archive, fit |-> None, remaining |-> rest]
               ELSE ScanNewArchives_strict(old_archive, snapshot, i + 1, new_archive, rest)
       ELSE IF new_retention >= old_archive_retention
               /\ (new_precision % old_precision) = 0
       THEN [best |-> best, fit |-> new_archive,
             remaining |-> IF new_retention = old_archive_retention
                           THEN Remove(remaining, new_archive) ELSE remaining]
       ELSE ScanNewArchives_strict(old_archive, snapshot, i + 1, best, remaining)

\* the loop body of find_new_archive over the copy list(new_archives),
\* from position i on, with the best fit so far and the list being consumed
RECURSIVE ScanNewArchives(_, _, _, _, _)
ScanNewArchives(old_archive, snapshot, i, best, remaining) ==
  IF i > Len(snapshot)
  THEN [best |-> best, fit |-> None, remaining |-> remaining]
  ELSE
    LET new_archive == snapshot[i]
        new_precision == new_archive[1]
        new_points == new_archive[2]
        new_retention == new_precision * new_points
        old_archive_retention == old_archive.retention
        old_precision == old_archive.secondsPerPoint
    IN IF new_precision <= old_precision /\ (old_precision % new_precision) = 0
       THEN LET rest == IF new_retention <= old_archive_retention
                        THEN Remove(remaining, new_archive) ELSE remaining
            IN IF new_retention >= old_archive_retention
               THEN [best |-> new_archive, fit |-> None, remaining |-> rest]
               ELSE ScanNewArchives(old_archive, snapshot, i + 1, new_archive, rest)
       ELSE IF new_retention >= old_archive_retention
               /\ (new_precision % old_precision) = 0
       THEN [best |-> best, fit |-> new_archive,
             remaining |-> IF new_retention = old_archive_retention
                           THEN Remove(remaining, new_archive) ELSE remaining]
       ELSE ScanNewArchives(old_archive, snapshot, i + 1, best, remaining)

find_new_archive(old_archive, archives) ==
  ScanNewArchives(old_archive, archives, 1, None, archives)

\* ------------------------------------------------------ the aggregator
\* grouped(n, iterable, fillvalue=None): zip_longest over n copies of one
\* iterator, the last tuple padded with None
grouped(n, values) ==
  [j \in 1..CeilDiv(Len(values), n) |->
     [i \in 1..n |-> IF (j - 1) * n + i <= Len(values)
                     THEN values[(j - 1) * n + i] ELSE None]]

\* the bucket reduction without the test that a value is present
ReduceBucket_nocheck(aggregation_values, factor) ==
  LET non_none_values == SelectSeq(aggregation_values, LAMBDA x : x /= None)
  IN IF Len(non_none_values) * factor[2] >= factor[1] * Len(aggregation_values)
     THEN Aggregate(non_none_values, aggregation_values)
     ELSE None

\* the bucket reduction with > in place of >=
ReduceBucket_strict(aggregation_values, factor) ==
  LET non_none_values == SelectSeq(aggregation_values, LAMBDA x : x /= None)
  IN IF non_none_values /= << >>
        /\ Len(non_none_values) * factor[2] > factor[1] * Len(aggregation_values)
     THEN Aggregate(non_none_values, aggregation_values)
     ELSE None

\* the body of the aggregation loop for one tuple of grouped()
ReduceBucket(aggregation_values, factor) ==
  LET non_none_values == SelectSeq(aggregation_values, LAMBDA x : x /= None)
  IN IF non_none_values /= << >>
        /\ Len(non_none_values) * factor[2] >= factor[1] * Len(aggregation_values)
     THEN Aggregate(non_none_values, aggregation_values)
     ELSE None

\* write_datapoints without the filter of None values
write_datapoints_unfiltered(timeinfo, values) ==
  LET n == Min(RangeLen(timeinfo[1], timeinfo[2], timeinfo[3]), Len(values))
  IN [i \in 1..n |-> <<timeinfo[1] + (i - 1) * timeinfo[3], values[i]>>]

\* ---------------------------------------------------------- the writer
\* write_datapoints: the points handed to whisper.update_many
write_datapoints(timeinfo, values) ==
  LET n == Min(RangeLen(timeinfo[1], timeinfo[2], timeinfo[3]), Len(values))
      datapoints == [i \in 1..n |-> <<timeinfo[1] + (i - 1) * timeinfo[3], values[i]>>]
  IN SelectSeq(datapoints, LAMBDA p : p[2] /= None)

\* ------------------------------------------------------------ the run
\* old_archives.sort(key=secondsPerPoint)
RECURSIVE SortOldArchives(_)
SortOldArchives(s) ==
  IF Len(s) <= 1 THEN s
  ELSE LET rest == SortOldArchives(Tail(s))
           lo == SelectSeq(rest, LAMBDA a : a.secondsPerPoint < Head(s).secondsPerPoint)
           hi == SelectSeq(rest, LAMBDA a : a.secondsPerPoint >= Head(s).secondsPerPoint)
       IN lo \o <<Head(s)>> \o hi

SeqsUpTo(S, n) == UNION {[1..k -> S] : k \in 1..n}

\* the archives of an existing store: distinct precisions, and a coarser
\* archive retains more than a finer one
OldSchemas ==
  {s \in SeqsUpTo({OldArchive(r[1], r[2]) : r \in RetentionSpecs}, Cardinality(Precisions)) :
     \A i, j \in 1..Len(s) :
        /\ (i /= j => s[i].secondsPerPoint /= s[j].secondsPerPoint)
        /\ (s[i].secondsPerPoint < s[j].secondsPerPoint
              => s[i].retention < s[j].retention)}

\* the retention definitions of the command line: distinct precisions
NewSchemas ==
  {s \in SeqsUpTo(RetentionSpecs, Cardinality(Precisions)) :
     \A i, j \in 1..Len(s) : i /= j => s[i][1] /= s[j][1]}

\* Python's == between an int and a tuple
IntEqTuple(n, t) == FALSE

\* [a['secondsPerPoint'] for a in old_archives] == new_archives
RetentionUnchanged(olds, news) ==
  /\ Len(olds) = Len(news)
  /\ \A i \in 1..Len(olds) : IntEqTuple(olds[i].secondsPerPoint, news[i])

Message(msg, old_archive) ==
  [msg |-> msg, precision |-> old_archive.secondsPerPoint,
   retention |-> old_archive.retention]

NoArchive == [secondsPerPoint |-> 0, points |-> 0, retention |-> 0]

\* one call of write_datapoints: the old archive being migrated, the new
\* archive it was matched with, the arguments, and the points handed to
\* whisper.update_many
Batch(kind, into, timeinfo, values) ==
  [old |-> idx, kind |-> kind, into |-> into, timeinfo |-> timeinfo,
   values |-> values, points |-> write_datapoints(timeinfo, values)]

Exit(code) == pc' = "exit" /\ exitcode' = code

\* lines 49-71: options and arguments parsed, both schemas sorted
Init ==
  /\ now \in Nows
  /\ old_archives \in {SortOldArchives(s) : s \in OldSchemas}
  /\ new_schema \in {SortByPrecision(s) : s \in NewSchemas}
  /\ new_archives = new_schema
  /\ options \in [force : BOOLEAN, newfile : BOOLEAN, nobackup : BOOLEAN]
  /\ xff \in XffChoices
  /\ pc = "check"
  /\ idx = 0
  /\ fromTime = now
  /\ untilTime = now
  /\ old_timeinfo = <<0, 0, 1>>
  /\ old_values = << >>
  /\ best_fit_new_archive = None
  /\ fit_new_archive = None
  /\ written = << >>
  /\ log = << >>
  /\ fs = [path |-> "original", tmp |-> "absent", bak |-> "absent", newfile |-> "absent"]
  /\ exitcode = -1

\* lines 73-75: the unchanged-retention check
CheckUnchanged ==
  /\ pc = "check"
  /\ IF RetentionUnchanged(old_archives, new_archives)
     THEN /\ log' = Append(log, Message("equal", NoArchive))
          /\ Exit(1)
     ELSE /\ pc' = "create"
          /\ UNCHANGED <<log, exitcode>>
  /\ UNCHANGED <<now, old_archives, new_schema, new_archives, options, xff, idx,
                 fromTime, untilTime, old_timeinfo, old_values,
                 best_fit_new_archive, fit_new_archive, written, fs>>

\* lines 77-99 and 134-135: the new store is created, the cursor starts at now
Create ==
  /\ pc = "create"
  /\ fs' = IF options.newfile
           THEN [fs EXCEPT !.newfile = "migrated"]
           ELSE [fs EXCEPT !.tmp = "migrated"]
  /\ fromTime' = now
  /\ idx' = 0
  /\ pc' = "loop"
  /\ UNCHANGED <<now, old_archives, new_schema, new_archives, options, xff,
                 untilTime, old_timeinfo, old_values,
                 best_fit_new_archive, fit_new_archive, written, log, exitcode>>

\* the fetch with every window ending at now (no cursor)
Fetch_until_now ==
  /\ pc = "loop"
  /\ idx < Len(old_archives)
  /\ idx' = idx + 1
  /\ untilTime' = now
  /\ fromTime' = now - old_archives[idx'].retention
  /\ old_timeinfo' = FetchTimeinfo(old_archives[idx'], fromTime', untilTime')
  /\ old_values' \in FetchValues(old_timeinfo')
  /\ pc' = "match"
  /\ UNCHANGED <<now, old_archives, new_schema, new_archives, options, xff,
                 best_fit_new_archive, fit_new_archive, written, log, fs, exitcode>>

\* lines 136-140: the next old archive is fetched for its window
Fetch ==
  /\ pc = "loop"
  /\ idx < Len(old_archives)
  /\ idx' = idx + 1
  /\ untilTime' = fromTime
  /\ fromTime' = now - old_archives[idx'].retention
  /\ old_timeinfo' = FetchTimeinfo(old_archives[idx'], fromTime', untilTime')
  /\ old_values' \in FetchValues(old_timeinfo')
  /\ pc' = "match"
  /\ UNCHANGED <<now, old_archives, new_schema, new_archives, options, xff,
                 best_fit_new_archive, fit_new_archive, written, log, fs, exitcode>>

\* line 136: no old archive is left
LoopEnd ==
  /\ pc = "loop"
  /\ idx = Len(old_archives)
  /\ pc' = "swap"
  /\ UNCHANGED <<now, old_archives, new_schema, new_archives, options, xff, idx,
                 fromTime, untilTime, old_timeinfo, old_values,
                 best_fit_new_archive, fit_new_archive, written, log, fs, exitcode>>

\* lines 143-144: the matcher is called, consuming new_archives
Match ==
  /\ pc = "match"
  /\ LET r == find_new_archive(old_archives[idx], new_archives)
     IN /\ best_fit_new_archive' = r.best
        /\ fit_new_archive' = r.fit
        /\ new_archives' = r.remaining
  /\ pc' = "branch"
  /\ UNCHANGED <<now, old_archives, new_schema, options, xff, idx,
                 fromTime, untilTime, old_timeinfo, old_values,
                 written, log, fs, exitcode>>

\* the unchanged part of the state of a step of the migration loop
LoopFrame ==
  UNCHANGED <<now, old_archives, new_schema, new_archives, options, xff, idx,
              fromTime, untilTime, old_timeinfo, old_values,
              best_fit_new_archive, fit_new_archive, fs>>

\* the forced drop with continue in place of break
DropForced_continue ==
  /\ pc = "branch"
  /\ best_fit_new_archive = None /\ fit_new_archive = None
  /\ options.force
  /\ log' = Append(log, Message("dropped", old_archives[idx]))
  /\ pc' = "loop"
  /\ UNCHANGED <<written, exitcode>>
  /\ LoopFrame

\* lines 145-148: nothing fits and --force is given: the loop is left
DropForced ==
  /\ pc = "branch"
  /\ best_fit_new_archive = None /\ fit_new_archive = None
  /\ options.force
  /\ log' = Append(log, Message("dropped", old_archives[idx]))
  /\ pc' = "swap"
  /\ UNCHANGED <<written, exitcode>>
  /\ LoopFrame

\* the unfittable branch breaking out of the loop whether or not --force
ExitUnfittable_break ==
  /\ pc = "branch"
  /\ best_fit_new_archive = None /\ fit_new_archive = None
  /\ ~options.force
  /\ log' = Append(log, Message("couldnt_fit", old_archives[idx]))
  /\ pc' = "swap"
  /\ UNCHANGED <<written, exitcode>>
  /\ LoopFrame

\* lines 145, 149-151: nothing fits and --force is not given
ExitUnfittable ==
  /\ pc = "branch"
  /\ best_fit_new_archive = None /\ fit_new_archive = None
  /\ ~options.force
  /\ log' = Append(log, Message("couldnt_fit", old_archives[idx]))
  /\ Exit(1)
  /\ UNCHANGED written
  /\ LoopFrame

\* line 153
best_retention == best_fit_new_archive[1] * best_fit_new_archive[2]

\* line 154 comparing points in place of retentions
TooSmall_points ==
  best_fit_new_archive[2] < old_archives[idx].points /\ ~options.force

\* line 154: the best fit retains less than the old archive, without --force
TooSmall ==
  best_retention < old_archives[idx].retention /\ ~options.force

\* lines 152-156: only a best fit, too small, and --force is not given
ExitTooSmall ==
  /\ pc = "branch"
  /\ best_fit_new_archive /= None /\ fit_new_archive = None
  /\ TooSmall
  /\ log' = Append(log, Message("too_small", old_archives[idx]))
  /\ Exit(1)
  /\ UNCHANGED written
  /\ LoopFrame

\* lines 152-158: only a best fit: the fetched values are written as they are
CopyBestOnly ==
  /\ pc = "branch"
  /\ best_fit_new_archive /= None /\ fit_new_archive = None
  /\ ~TooSmall
  /\ written' = Append(written,
                  Batch("copy", best_fit_new_archive, old_timeinfo, old_values))
  /\ pc' = "loop"
  /\ UNCHANGED <<log, exitcode>>
  /\ LoopFrame

\* line 163 with best_fit_new_archive = None: unpacking None raises
\* TypeError, which nothing catches
UnpackNone ==
  /\ pc = "branch"
  /\ fit_new_archive /= None
  /\ best_fit_new_archive = None
  /\ log' = Append(log, Message("traceback", old_archives[idx]))
  /\ Exit(1)
  /\ UNCHANGED written
  /\ LoopFrame

\* line 164
best_new_points ==
  best_fit_new_archive[2]
    \div (old_archives[idx].secondsPerPoint \div best_fit_new_archive[1])

\* line 165
best_new_values ==
  PySlice(old_values, Len(old_values) - best_new_points, Len(old_values))

\* line 166
best_new_timeinfo ==
  <<old_timeinfo[2] - (best_new_points * old_timeinfo[3]), old_timeinfo[2],
    old_timeinfo[3]>>

\* lines 159-167: a best fit and a fit: the best fit receives raw values
MigrateBest ==
  /\ pc = "branch"
  /\ fit_new_archive /= None
  /\ best_fit_new_archive /= None
  /\ written' = Append(written,
                  Batch("best", best_fit_new_archive, best_new_timeinfo,
                        best_new_values))
  /\ pc' = "fit"
  /\ UNCHANGED <<log, exitcode>>
  /\ LoopFrame

\* line 171
num_of_aggregation_points ==
  fit_new_archive[1] \div old_archives[idx].secondsPerPoint

\* line 172
fit_values == PySlice(old_values, 0, best_new_points)

\* lines 173-180
new_values ==
  LET groups == grouped(num_of_aggregation_points, fit_values)
  IN [j \in 1..Len(groups) |-> ReduceBucket(groups[j], xff)]

\* line 181
new_timeinfo ==
  <<old_timeinfo[1], old_timeinfo[1] + Len(new_values) * fit_new_archive[1],
    fit_new_archive[1]>>

\* lines 169-182: the fit receives the aggregated values
MigrateFit ==
  /\ pc = "fit"
  /\ written' = Append(written,
                  Batch("fit", fit_new_archive, new_timeinfo, new_values))
  /\ pc' = "loop"
  /\ UNCHANGED <<log, exitcode>>
  /\ LoopFrame

\* the unchanged part of the state of a step after the loop
SwapFrame ==
  UNCHANGED <<now, old_archives, new_schema, new_archives, options, xff, idx,
              fromTime, untilTime, old_timeinfo, old_values,
              best_fit_new_archive, fit_new_archive, written>>

\* line 184 without the exit: --newfile runs into the renames
ExitNewfile_rename ==
  /\ pc = "swap"
  /\ options.newfile
  /\ fs' = [fs EXCEPT !.bak = fs.path, !.path = "absent"]
  /\ log' = Append(log, Message("renaming_old", NoArchive))
  /\ pc' = "rename_new"
  /\ UNCHANGED exitcode
  /\ SwapFrame

\* lines 184-185: --newfile ends the run here
ExitNewfile ==
  /\ pc = "swap"
  /\ options.newfile
  /\ Exit(0)
  /\ UNCHANGED <<fs, log>>
  /\ SwapFrame

\* lines 184, 187-189: the original is renamed to the backup
RenameToBackup ==
  /\ pc = "swap"
  /\ ~options.newfile
  /\ fs' = [fs EXCEPT !.bak = fs.path, !.path = "absent"]
  /\ log' = Append(log, Message("renaming_old", NoArchive))
  /\ pc' = "rename_new"
  /\ UNCHANGED exitcode
  /\ SwapFrame

\* lines 191-193: the temporary store is renamed onto the path
RenameNew ==
  /\ pc = "rename_new"
  /\ fs' = [fs EXCEPT !.path = fs.tmp, !.tmp = "absent"]
  /\ log' = Append(log, Message("renaming_new", NoArchive))
  /\ pc' = "cleanup"
  /\ UNCHANGED exitcode
  /\ SwapFrame

\* the except branch without the rename of the backup
RestoreBackup_norename ==
  /\ pc = "rename_new"
  /\ fs' = fs
  /\ log' = Append(log, Message("renaming_new", NoArchive))
            \o <<Message("restoring", NoArchive)>>
  /\ Exit(1)
  /\ SwapFrame

\* lines 194-198: the rename raised OSError: the backup is renamed back
RestoreBackup ==
  /\ pc = "rename_new"
  /\ fs' = [fs EXCEPT !.path = fs.bak, !.bak = "absent"]
  /\ log' = Append(log, Message("renaming_new", NoArchive))
            \o <<Message("restoring", NoArchive)>>
  /\ Exit(1)
  /\ SwapFrame

\* the last step unlinking the backup whether or not --nobackup
Cleanup_unlink ==
  /\ pc = "cleanup"
  /\ fs' = [fs EXCEPT !.bak = "absent"]
  /\ log' = Append(log, Message("unlinking", NoArchive))
  /\ Exit(0)
  /\ SwapFrame

\* lines 200-202: the backup is unlinked under --nobackup; the script ends
Cleanup ==
  /\ pc = "cleanup"
  /\ fs' = IF options.nobackup THEN [fs EXCEPT !.bak = "absent"] ELSE fs
  /\ log' = IF options.nobackup
            THEN Append(log, Message("unlinking", NoArchive)) ELSE log
  /\ Exit(0)
  /\ SwapFrame

Next ==
  \/ CheckUnchanged
  \/ Create
  \/ Fetch
  \/ LoopEnd
  \/ Match
  \/ DropForced
  \/ ExitUnfittable
  \/ ExitTooSmall
  \/ CopyBestOnly
  \/ UnpackNone
  \/ MigrateBest
  \/ MigrateFit
  \/ ExitNewfile
  \/ RenameToBackup
  \/ RenameNew
  \/ RestoreBackup
  \/ Cleanup

Spec == Init /\ [][Next]_vars

TypeOK ==
  /\ pc \in {"check", "create", "loop", "match", "branch", "fit", "swap",
             "rename_new", "cleanup", "exit"}
  /\ exitcode \in {-1, 0, 1}
  /\ idx \in 0..Len(old_archives)

\* ------------------------------------------------------------- claims
CurrentOld == old_archives[idx]

Retention(spec) == spec[1] * spec[2]

\* the new schema has exactly the (precision, points) pairs of the old one
SameSchema ==
  /\ Len(old_archives) = Len(new_schema)
  /\ \A i \in 1..Len(old_archives) :
       new_schema[i] = <<old_archives[i].secondsPerPoint, old_archives[i].points>>

Logged(msg) == \E k \in 1..Len(log) : log[k].msg = msg

\* the loop has just written the aggregated batch of the current old archive
FitWritten ==
  pc = "loop" /\ written /= << >> /\ Last(written).kind = "fit"

\* the loop has just copied the current old archive into its best fit only
CopyWritten ==
  pc = "loop" /\ written /= << >> /\ Last(written).kind = "copy"

\* C1: a resize request whose new schema equals the old schema is rejected
\* with a non-zero exit before the new store is created and before any
\* point is written.
C1_NoOpRejected ==
  SameSchema =>
    \/ pc = "check"
    \/ /\ pc = "exit" /\ exitcode = 1
       /\ fs.tmp = "absent" /\ fs.newfile = "absent"
       /\ written = << >>

\* C2: an old archive with only a coarsen candidate (no refine candidate)
\* is migrated: the run does not fail there and the aggregated batch, one
\* value per bucket of fit precision / old precision samples, is written.
C2_PureCoarsenCompletes ==
  (idx >= 1 /\ pc \notin {"match", "branch"}
     /\ best_fit_new_archive = None /\ fit_new_archive /= None) =>
    /\ exitcode /= 1
    /\ written /= << >>
    /\ Last(written).kind = "fit"
    /\ Last(written).old = idx
    /\ Len(Last(written).values)
         = CeilDiv(Len(old_values), num_of_aggregation_points)

\* C3: when a best fit and a fit are both found, every fetched slot is
\* either in the best-fit batch (the newest slots) or in the values
\* aggregated into the fit (the older slots), and none is left out.
C3_FitTakesTheRest ==
  FitWritten => fit_values \o best_new_values = old_values

\* the old samples actually in bucket j of the aggregation
BucketSamples(j) ==
  SubSeq(fit_values, (j - 1) * num_of_aggregation_points + 1,
         Min(j * num_of_aggregation_points, Len(fit_values)))

Present(values) == Len(SelectSeq(values, LAMBDA x : x /= None))

\* C4: for every bucket the aggregator forms, with k present samples out of
\* the n samples actually in the bucket, the output is None if and only if
\* k/n < xFilesFactor.
C4_CompletenessLaw ==
  FitWritten =>
    \A j \in 1..Len(Last(written).values) :
      (Last(written).values[j] = None)
        <=> (Present(BucketSamples(j)) * xff[2] < xff[1] * Len(BucketSamples(j)))

\* C5: the newest timestamp of an aggregated batch is congruent to 0 modulo
\* the fit precision and is less than one fit precision away from the end
\* of the old archive's fetched window.
C5_AlignmentLaw ==
  (FitWritten /\ Last(written).values /= << >>) =>
    LET P == Last(written).timeinfo[3]
        newest == Last(written).timeinfo[2] - P
        end == old_timeinfo[2]
    IN /\ newest % P = 0
       /\ end - newest < P
       /\ newest - end < P

\* C4 (as amended): a short final bucket is padded with None up to the
\* bucket size; with k present samples in a bucket of n = bucket size
\* slots, the output is None if and only if k = 0 or k/n < xFilesFactor,
\* and otherwise it is the aggregate of the present samples; at
\* k/n = xFilesFactor with k > 0 the bucket is aggregated.
C4_PaddedCompletenessLaw ==
  FitWritten =>
    /\ Len(Last(written).values)
         = CeilDiv(Len(fit_values), num_of_aggregation_points)
    /\ \A j \in 1..Len(Last(written).values) :
         LET present == SelectSeq(BucketSamples(j), LAMBDA x : x /= None)
             k == Len(present)
             n == num_of_aggregation_points
         IN IF k = 0 \/ k * xff[2] < xff[1] * n
            THEN Last(written).values[j] = None
            ELSE /\ Last(written).values[j] /= None
                 /\ Last(written).values[j] = Aggregate(present, BucketSamples(j))

\* a short final bucket whose one present sample of two slots meets the
\* factor 1/2 exactly, and is aggregated
C4_Witness ==
  /\ FitWritten
  /\ Len(fit_values) % num_of_aggregation_points /= 0
  /\ xff = <<1, 2>>
  /\ num_of_aggregation_points = 2
  /\ Last(Last(written).values) /= None

\* C6: when the matcher returns only a best fit whose retention is at least
\* the old archive's, the batch written for the old archive holds, for every
\* fetched slot i with a present value v, exactly the point
\* (start + i*step, v), and no other point.
C6_LosslessRefine ==
  (CopyWritten /\ best_retention >= CurrentOld.retention) =>
    LET points == Last(written).points
        expected == {<<old_timeinfo[1] + (i - 1) * old_timeinfo[3], old_values[i]>> :
                       i \in {i \in 1..Len(old_values) : old_values[i] /= None}}
    IN /\ best_fit_new_archive[1] <= CurrentOld.secondsPerPoint
       /\ CurrentOld.secondsPerPoint % best_fit_new_archive[1] = 0
       /\ {points[k] : k \in 1..Len(points)} = expected
       /\ Len(points) = Cardinality(expected)

\* a copy of a window with both present and absent slots
C6_Witness ==
  /\ CopyWritten
  /\ best_retention >= CurrentOld.retention
  /\ Len(Last(written).points) >= 2
  /\ \E i \in 1..Len(old_values) : old_values[i] = None

\* C7: when the matcher returns (None, None) for an old archive and force is
\* not set, the run ends with exit status 1 and a message naming the
\* archive's precision and retention; no point of that or a coarser old
\* archive is written, and the original path is never renamed or replaced.
C7_UnfittableAborts ==
  (idx >= 1 /\ pc \notin {"match", "branch"} /\ ~options.force
     /\ best_fit_new_archive = None /\ fit_new_archive = None) =>
    /\ pc = "exit" /\ exitcode = 1
    /\ log /= << >>
    /\ Last(log) = Message("couldnt_fit", CurrentOld)
    /\ \A k \in 1..Len(written) : written[k].old < idx
    /\ fs.path = "original" /\ fs.bak = "absent"
    /\ ~Logged("renaming_old") /\ ~Logged("renaming_new")

\* the second, coarser old archive is the one that does not fit, after the
\* first one was copied
C7_Witness ==
  /\ pc = "exit" /\ ~options.force
  /\ idx = 2
  /\ best_fit_new_archive = None /\ fit_new_archive = None
  /\ written /= << >>

\* C8: when the only match is a best fit that retains less than the old
\* archive and force is not set, the run exits with status 1 before a point
\* of that old archive is written and before the swap; without force no
\* copied batch ever went into a best fit smaller than its old archive.
C8_TooSmallAborts ==
  /\ (idx >= 1 /\ pc \notin {"match", "branch"} /\ ~options.force
        /\ best_fit_new_archive /= None /\ fit_new_archive = None
        /\ best_retention < CurrentOld.retention) =>
       /\ pc = "exit" /\ exitcode = 1
       /\ \A k \in 1..Len(written) : written[k].old < idx
       /\ fs.path = "original" /\ fs.bak = "absent"
       /\ ~Logged("renaming_old")
  /\ ~options.force =>
       \A k \in 1..Len(written) :
         written[k].kind = "copy" =>
           Retention(written[k].into) >= old_archives[written[k].old].retention

\* the second old archive meets a best fit that is too small, after the
\* first one was copied
C8_Witness ==
  /\ pc = "exit" /\ ~options.force
  /\ idx = 2
  /\ best_fit_new_archive /= None /\ fit_new_archive = None
  /\ best_retention < CurrentOld.retention
  /\ written /= << >>

\* C9: if renaming the temporary store onto the original path fails, the
\* original path afterwards holds the content it had before the migration,
\* and the run exits with a non-zero status.
C9_RollbackRestores ==
  Logged("restoring") =>
    /\ pc = "exit" /\ exitcode = 1
    /\ fs.path = "original"

\* the rename failed after points had been migrated
C9_Witness ==
  /\ Logged("restoring")
  /\ written /= << >>
  /\ pc = "exit"

\* C10: when an old archive is unfittable and force is set, the loop is
\* left: no coarser old archive is fetched, matched or written, and the run
\* goes on to the swap.
C10_ForceDropStops ==
  Logged("dropped") =>
    /\ pc \in {"swap", "rename_new", "cleanup", "exit"}
    /\ options.force
    /\ best_fit_new_archive = None /\ fit_new_archive = None
    /\ Len(SelectSeq(log, LAMBDA m : m.msg = "dropped")) = 1
    /\ \E k \in 1..Len(log) : log[k] = Message("dropped", CurrentOld)
    /\ fromTime = now - CurrentOld.retention
    /\ old_timeinfo[3] = CurrentOld.secondsPerPoint
    /\ \A k \in 1..Len(written) : written[k].old < idx
    /\ pc = "exit" => (exitcode = 0 \/ Logged("restoring"))
    /\ (pc = "exit" /\ ~options.newfile) => Logged("renaming_old")

\* the finer of two old archives was dropped and the run ended well, the
\* coarser one never touched
C10_Witness ==
  /\ Logged("dropped")
  /\ idx < Len(old_archives)
  /\ pc = "exit" /\ exitcode = 0
  /\ fs.path = "migrated"

\* C11: in a run with force set, every old archive whose data is dropped
\* (nothing matches it) or truncated (its only best fit retains less than
\* it) has a log message naming it.
C11_ForcedDropsLogged ==
  options.force =>
    /\ (idx >= 1 /\ pc \notin {"match", "branch"}
          /\ best_fit_new_archive = None /\ fit_new_archive = None) =>
         \E m \in 1..Len(log) : log[m] = Message("dropped", CurrentOld)
    /\ \A k \in 1..Len(written) :
         (written[k].kind = "copy"
            /\ Retention(written[k].into) < old_archives[written[k].old].retention) =>
           \E m \in 1..Len(log) :
             /\ log[m].precision = old_archives[written[k].old].secondsPerPoint
             /\ log[m].retention = old_archives[written[k].old].retention

\* position of the first message msg in the log, 0 when there is none
FirstLogged(msg) ==
  IF Logged(msg)
  THEN CHOOSE k \in 1..Len(log) :
         log[k].msg = msg /\ \A j \in 1..(k - 1) : log[j].msg /= msg
  ELSE 0

\* C12: when the loop ends without a fatal error, no separate new file was
\* requested and the swap succeeds, the path holds the migrated store and a
\* backup holding the original exists if and only if --nobackup was not
\* given; the original is renamed to the backup before the new store is
\* renamed onto the path, and never before the loop has ended.
C12_SuccessfulSwap ==
  /\ (pc = "exit" /\ exitcode = 0 /\ ~options.newfile) =>
       /\ fs.path = "migrated" /\ fs.tmp = "absent"
       /\ (fs.bak = "original") <=> ~options.nobackup
       /\ options.nobackup => fs.bak = "absent"
  /\ (fs.path /= "original" \/ fs.bak /= "absent") =>
       /\ pc \in {"rename_new", "cleanup", "exit"}
       /\ Logged("renaming_old")
  /\ pc = "rename_new" => (fs.path = "absent" /\ fs.bak = "original")
  /\ fs.path = "migrated" =>
       /\ Logged("renaming_new")
       /\ FirstLogged("renaming_old") < FirstLogged("renaming_new")

\* a run that migrated points, swapped and kept the backup
C12_Witness ==
  /\ pc = "exit" /\ exitcode = 0
  /\ ~options.newfile /\ ~options.nobackup
  /\ written /= << >>
  /\ fs.path = "migrated" /\ fs.bak = "original"

\* C13: when a separate new file is requested, the original path is never
\* renamed, replaced or deleted and no backup is created, in a successful
\* or a failed run; a successful run exits with status 0 right after the
\* loop.
C13_NewfileLeavesOriginal ==
  options.newfile =>
    /\ fs.path = "original" /\ fs.bak = "absent" /\ fs.tmp = "absent"
    /\ pc \notin {"rename_new", "cleanup"}
    /\ ~Logged("renaming_old") /\ ~Logged("renaming_new") /\ ~Logged("unlinking")
    /\ (pc = "exit" /\ exitcode = 0) =>
         /\ fs.newfile = "migrated"
         /\ (idx = Len(old_archives) \/ Logged("dropped"))

\* a successful run into a separate new file, with points migrated
C13_Witness ==
  /\ options.newfile
  /\ pc = "exit" /\ exitcode = 0
  /\ written /= << >>
  /\ fs.newfile = "migrated"

\* the window [from, until] the claim gives the i-th old archive
Window(i) ==
  <<now - old_archives[i].retention,
    IF i = 1 THEN now ELSE now - old_archives[i - 1].retention>>

\* C14: old archives are processed in ascending precision order and the
\* i-th one is fetched for [now - retention_i, now - retention_(i-1)], the
\* first window ending at now; no two windows overlap and, when all old
\* archives are processed, their union is [now - coarsest retention, now].
C14_WindowsPartition ==
  /\ \A i, j \in 1..Len(old_archives) :
       i < j => old_archives[i].secondsPerPoint < old_archives[j].secondsPerPoint
  /\ idx = 0 => fromTime = now
  /\ idx >= 1 =>
       /\ <<fromTime, untilTime>> = Window(idx)
       /\ fromTime < untilTime
       /\ old_timeinfo[3] = old_archives[idx].secondsPerPoint
  /\ \A i, j \in 1..idx : i < j => Window(j)[2] <= Window(i)[1]
  /\ (pc = "swap" /\ ~Logged("dropped")) =>
       /\ idx = Len(old_archives)
       /\ Window(1)[2] = now
       /\ \A i \in 2..idx : Window(i)[2] = Window(i - 1)[1]
       /\ fromTime = now - old_archives[Len(old_archives)].retention

\* two old archives were fetched, the second for the narrowed window
C14_Witness ==
  /\ pc = "swap" /\ ~Logged("dropped")
  /\ idx = 2
  /\ untilTime < now

\* C15: in the best-fit-only branch the points handed to the writer for an
\* old archive are at most the old-precision slots that fit in the best
\* fit's retention, and they are the newest such slots of the window.
C15_CopyTruncated ==
  \A k \in 1..Len(written) :
    written[k].kind = "copy" =>
      LET budget == Retention(written[k].into)
                      \div old_archives[written[k].old].secondsPerPoint
          end == written[k].timeinfo[2]
          step == written[k].timeinfo[3]
      IN /\ Len(written[k].points) <= budget
         /\ \A i \in 1..Len(written[k].points) :
              written[k].points[i][1] >= end - budget * step

\* ------------------------------------------- the matcher on wider schemas
\* three precisions, each the double of the one before
WidePrecisions == {1, 2, 4}
WideSpecs == WidePrecisions \X (1..MaxPoints)
WideNow == 4 * MaxPoints + 1

\* the retention definitions of the command line over the wider precisions
WideNewSchemas ==
  {s \in SeqsUpTo(WideSpecs, Cardinality(WidePrecisions)) :
     \A i, j \in 1..Len(s) : i /= j => s[i][1] /= s[j][1]}

\* a store of one archive, after the new store was created (line 135)
InitMatcher ==
  /\ now = WideNow
  /\ old_archives \in {<<OldArchive(r[1], r[2])>> : r \in WideSpecs}
  /\ new_schema \in {SortByPrecision(s) : s \in WideNewSchemas}
  /\ new_archives = new_schema
  /\ options = [force |-> FALSE, newfile |-> FALSE, nobackup |-> FALSE]
  /\ xff = <<1, 2>>
  /\ pc = "loop"
  /\ idx = 0
  /\ fromTime = now
  /\ untilTime = now
  /\ old_timeinfo = <<0, 0, 1>>
  /\ old_values = << >>
  /\ best_fit_new_archive = None
  /\ fit_new_archive = None
  /\ written = << >>
  /\ log = << >>
  /\ fs = [path |-> "original", tmp |-> "migrated", bak |-> "absent", newfile |-> "absent"]
  /\ exitcode = -1

NextMatcher == Fetch \/ Match

\* the first fetch and the first call of the matcher
SpecMatcher == InitMatcher /\ [][NextMatcher]_vars

\* a refine candidate and a coarsen candidate of an old archive
IsRefine(old_archive, spec) ==
  spec[1] <= old_archive.secondsPerPoint /\ old_archive.secondsPerPoint % spec[1] = 0

IsCoarsen(old_archive, spec) ==
  spec[1] > old_archive.secondsPerPoint /\ spec[1] % old_archive.secondsPerPoint = 0

\* the position where scanning stops: the first candidate that retains at
\* least as much as the old archive, Len(specs) + 1 when there is none
StopAt(old_archive, specs) ==
  LET stops == {i \in 1..Len(specs) :
                  /\ IsRefine(old_archive, specs[i]) \/ IsCoarsen(old_archive, specs[i])
                  /\ Retention(specs[i]) >= old_archive.retention}
  IN IF stops = {} THEN Len(specs) + 1
     ELSE CHOOSE i \in stops : \A j \in stops : i <= j

\* the last refine candidate before position s, None when there is none
LastRefineBefore(old_archive, specs, s) ==
  LET refines == {i \in 1..Len(specs) : i < s /\ IsRefine(old_archive, specs[i])}
  IN IF refines = {} THEN None
     ELSE specs[CHOOSE i \in refines : \A j \in refines : j <= i]

\* C16: one call of the matcher removes exactly the scanned refine
\* candidates that retain at most as much as the old archive, and the
\* returned coarsen candidate when it retains exactly as much; every other
\* spec stays, in its original order, and the list does not grow.
C16_ConsumptionRule ==
  pc = "branch" =>
    LET old == old_archives[idx]
        s == StopAt(old, new_schema)
        removed == {i \in 1..Len(new_schema) :
                      /\ i <= s
                      /\ \/ /\ IsRefine(old, new_schema[i])
                            /\ Retention(new_schema[i]) <= old.retention
                         \/ /\ i = s
                            /\ IsCoarsen(old, new_schema[i])
                            /\ Retention(new_schema[i]) = old.retention}
        gone == {new_schema[i] : i \in removed}
    IN /\ new_archives = SelectSeq(new_schema, LAMBDA x : x \notin gone)
       /\ Len(new_archives) <= Len(new_schema)
       /\ \A i \in 1..Len(new_schema) :
            (i > s \/ Retention(new_schema[i]) > old.retention) =>
              \E k \in 1..Len(new_archives) : new_archives[k] = new_schema[i]

\* a refine candidate and the returned coarsen candidate were removed, and
\* a spec after the stop stayed
C16_Witness ==
  /\ pc = "branch"
  /\ fit_new_archive /= None
  /\ Len(new_schema) = 3
  /\ Len(new_archives) = 1
  /\ new_archives[1] = new_schema[3]

\* C17: the matcher returns at the first candidate that retains at least
\* as much as the old archive: (candidate, None) for a refine candidate,
\* (last refine candidate scanned before it or None, candidate) for a
\* coarsen candidate; a returned fit has a precision that is a multiple of
\* the old precision and retains at least as much, a returned best fit has
\* a precision that divides the old precision.
C17_StopRule ==
  pc = "branch" =>
    LET old == old_archives[idx]
        s == StopAt(old, new_schema)
    IN /\ IF s <= Len(new_schema) /\ IsRefine(old, new_schema[s])
          THEN /\ best_fit_new_archive = new_schema[s]
               /\ fit_new_archive = None
          ELSE IF s <= Len(new_schema)
          THEN /\ fit_new_archive = new_schema[s]
               /\ best_fit_new_archive = LastRefineBefore(old, new_schema, s)
          ELSE /\ fit_new_archive = None
               /\ best_fit_new_archive = LastRefineBefore(old, new_schema, s)
       /\ fit_new_archive /= None =>
            /\ fit_new_archive[1] % old.secondsPerPoint = 0
            /\ Retention(fit_new_archive) >= old.retention
       /\ best_fit_new_archive /= None =>
            old.secondsPerPoint % best_fit_new_archive[1] = 0

\* two refine candidates were scanned before the returned coarsen candidate
C17_Witness ==
  /\ pc = "branch"
  /\ Len(new_schema) = 3
  /\ fit_new_archive = new_schema[3]
  /\ best_fit_new_archive = new_schema[2]
  /\ IsRefine(old_archives[idx], new_schema[1])

\* ------------------------------------- the migration loop on wider schemas
WideNows == {WideNow, WideNow + 1}

\* a store of one or two archives and up to three new specs, after the new
\* store was created (line 135)
InitLoop ==
  /\ now \in WideNows
  /\ old_archives \in {SortOldArchives(s) : s \in OldSchemas}
  /\ new_schema \in {SortByPrecision(s) : s \in WideNewSchemas}
  /\ new_archives = new_schema
  /\ options \in [force : BOOLEAN, newfile : {FALSE}, nobackup : {FALSE}]
  /\ xff = <<1, 2>>
  /\ pc = "loop"
  /\ idx = 0
  /\ fromTime = now
  /\ untilTime = now
  /\ old_timeinfo = <<0, 0, 1>>
  /\ old_values = << >>
  /\ best_fit_new_archive = None
  /\ fit_new_archive = None
  /\ written = << >>
  /\ log = << >>
  /\ fs = [path |-> "original", tmp |-> "migrated", bak |-> "absent", newfile |-> "absent"]
  /\ exitcode = -1

NextLoop ==
  \/ Fetch
  \/ LoopEnd
  \/ Match
  \/ DropForced
  \/ ExitUnfittable
  \/ ExitTooSmall
  \/ CopyBestOnly
  \/ UnpackNone
  \/ MigrateBest
  \/ MigrateFit

\* the migration loop, lines 136-182
SpecLoop == InitLoop /\ [][NextLoop]_vars

\* C18: when a best fit and a fit are both found, every point (t, v)
\* written for the best fit has v equal to the fetched value of the slot
\* (t - start) / step of the old archive's window, also for an old archive
\* whose narrowed window has fewer slots than the best fit can absorb.
C18_BestBatchKeepsSlots ==
  pc = "fit" =>
    \A i \in 1..Len(Last(written).points) :
      LET t == Last(written).points[i][1]
          v == Last(written).points[i][2]
          offset == t - old_timeinfo[1]
          slot == (offset \div old_timeinfo[3]) + 1
      IN /\ offset >= 0
         /\ offset % old_timeinfo[3] = 0
         /\ slot <= Len(old_values)
         /\ old_values[slot] = v

\* C19: every point handed to whisper.update_many has a present value and
\* is the value of its own slot of the batch, no point stands for a slot
\* whose value is None, and the aggregation method is only called on a
\* non-empty sequence of present values.
C19_NoAbsentSamples ==
  \A k \in 1..Len(written) :
    LET b == written[k]
        slots == {j \in 1..Len(b.values) :
                    /\ b.values[j] /= None
                    /\ b.timeinfo[1] + (j - 1) * b.timeinfo[3] < b.timeinfo[2]}
    IN /\ \A i \in 1..Len(b.points) :
            /\ b.points[i][2] /= None
            /\ b.points[i][2] /= Undefined
            /\ \E j \in slots :
                 b.points[i] = <<b.timeinfo[1] + (j - 1) * b.timeinfo[3], b.values[j]>>
       /\ Len(b.points) = Cardinality(slots)
       /\ \A j \in 1..Len(b.values) : b.values[j] /= Undefined

\* with xFilesFactor 0, a bucket without any present value became None and
\* gave no point, and the best-fit batch before it lost its None slot
C19_Witness ==
  /\ FitWritten
  /\ xff = <<0, 1>>
  /\ Last(written).values = <<None>>
  /\ Last(written).points = << >>
  /\ Len(written) >= 2
  /\ written[Len(written) - 1].kind = "best"
  /\ Len(written[Len(written) - 1].values) = 2
  /\ Len(written[Len(written) - 1].points) = 1

====
